---- MODULE Spec2Model ----
(***************************************************************************)
(* A model of rbx-assetdump (src/main.py): the metadata fetch in chunks,   *)
(* the per-asset content download and file write, the summary and the      *)
(* manifest, run against a remote service and an output directory.         *)
(***************************************************************************)
EXTENDS Integers, Sequences, FiniteSets, TLC

\* ------------------------------------------------------------------ bounds

\* Longest id list of the runs of Spec (those of SpecBatch are longer).
MaxLen == 2
\* Largest number of metadata chunks of a run of SpecBatch.
MaxChunks == 3

\* ------------------------------------------------- constants of the program

chunk_size == 50

asset_type_to_extension ==
    (1 :> "png") @@ (3 :> "mp3") @@ (5 :> "lua") @@ (7 :> "txt") @@
    (9 :> "rbxl") @@ (10 :> "rbxm")

\* ------------------------------------------------------------ environment

\* The ids the remote service knows: one of one decimal digit, one of two.
IdSeq == <<9, 10>>

AssetIds == {IdSeq[k] : k \in 1..Len(IdSeq)}

\* The type codes the metadata service reports: the six of the table, and
\* two the table does not hold.
TypeCodeSeq == <<1, 3, 5, 7, 9, 10, 2, 999>>

TypeCodes == {TypeCodeSeq[k] : k \in 1..Len(TypeCodeSeq)}

\* The catalogues of the service: which type code each id has. Every type
\* code is the code of some id in some catalogue.
Catalogues ==
    {[i \in AssetIds |-> TypeCodeSeq[((i + k) % Len(TypeCodeSeq)) + 1]] :
        k \in {j \in 0..(Len(TypeCodeSeq) - 1) : j % 2 = 0}}

\* The name the service reports for an asset.
AssetName(id) == <<"asset", id>>

\* The bytes the delivery endpoint returns for an asset (empty for some).
RemoteContent(id) == [k \in 1..(id % 3) |-> (id + k) % 256]

\* Bytes of a file that was in the output directory before the first run.
OldBytes == <<255>>

\* -------------------------------------------------------- pure functions

Digits == <<"0", "1", "2", "3", "4", "5", "6", "7", "8", "9">>

\* str() of a non-negative integer, as the f-string formats asset_id.
RECURSIVE IntToStr(_)
IntToStr(n) ==
    IF n < 10 THEN Digits[n + 1]
    ELSE IntToStr(n \div 10) \o Digits[(n % 10) + 1]

\* The lookup with another default.
ExtensionDefaultTxt(typeId) ==
    IF typeId \in DOMAIN asset_type_to_extension
    THEN asset_type_to_extension[typeId]
    ELSE "txt"

\* asset_type_to_extension.get(typeId, "bin")
Extension(typeId) ==
    IF typeId \in DOMAIN asset_type_to_extension
    THEN asset_type_to_extension[typeId]
    ELSE "bin"

\* f"{asset_id}.{asset_extension}"
Filename(asset_id, asset_extension) ==
    IntToStr(asset_id) \o "." \o asset_extension

Min(a, b) == IF a < b THEN a ELSE b

\* A slice that takes the element at its end index too.
SliceInclusive(s, i, j) == SubSeq(s, i + 1, Min(j + 1, Len(s)))

\* asset_ids[i:j] of Python, 0-based and half-open, cut at the end.
Slice(s, i, j) == SubSeq(s, i + 1, Min(j, Len(s)))

\* range(0, n, step)
RangeStep(n, step) == {i \in 0..(n - 1) : i % step = 0}

\* [asset_ids[i:i+chunk_size] for i in range(0, len(asset_ids), chunk_size)]
IdChunks(ids) ==
    [k \in 1..Cardinality(RangeStep(Len(ids), chunk_size)) |->
        Slice(ids, (k - 1) * chunk_size, (k - 1) * chunk_size + chunk_size)]

\* ------------------------------------------------------------------ state

VARIABLES
    serverType,       \* remote: the type code of each id (fixed)
    omitted,          \* remote: the ids the metadata service leaves out (fixed)
    down,             \* remote: the ids whose content request always fails
    unreliable,       \* remote: any content request may fail (fixed)
    files,            \* output directory: the entry at each asset filename
    manifest,         \* output directory: assets.json
    asset_ids,        \* main: the requested ids
    pc,               \* main: the phase of the run
    id_chunks,        \* get_asset_information: the chunks
    chunk_idx,        \* get_asset_information: the chunk of the for loop
    meta_inflight,    \* get_asset_information: a metadata request is awaited
    asset_infos,      \* get_asset_information: results, then main: asset_infos
    result_metadata,  \* main: the records
    coroutines,       \* main: the download coroutines, not yet started
    idx,              \* main: the coroutine the for loop awaits
    dl,               \* download_asset_to_path: where the awaited coroutine is
    content,          \* download_asset_to_path: the bytes fetched
    results,          \* main: the (ok, value) pairs
    success_count,    \* main
    fail_count,       \* main
    error,            \* the exception that ended the run, "none" if none
    meta_log,         \* history: the chunks of the metadata requests issued
    content_log,      \* history: the ids of the content requests issued
    manifest_writes,  \* history: writes of assets.json in this run
    opened,           \* history: the files this run created or truncated
    prev              \* history: the previous run, and the directory it left

vars ==
    <<serverType, omitted, down, unreliable, files, manifest, asset_ids, pc, id_chunks,
      chunk_idx, meta_inflight, asset_infos, result_metadata, coroutines, idx,
      dl, content, results, success_count, fail_count, error, meta_log,
      content_log, manifest_writes, opened, prev>>

\* What the run leaves alone once it is past the metadata phase.
metaVars == <<id_chunks, chunk_idx, meta_inflight, asset_infos, meta_log>>
envVars == <<serverType, omitted, down, unreliable>>
histVars == <<prev>>

\* ------------------------------------------------------ output directory

AssetFiles == {Filename(i, Extension(t)) : i \in AssetIds, t \in TypeCodes}

Absent == [kind |-> "absent", data |-> <<>>]
\* An entry that cannot be opened for writing (a directory of that name).
Blocked == [kind |-> "dir", data |-> <<>>]
OldFile == [kind |-> "file", data |-> OldBytes]

NoManifest == [exists |-> FALSE, assets |-> <<>>]

\* The directories the first run may find: at the filename of each id
\* nothing, an older file or an entry that cannot be opened.
DirsOf(catalogue, entries) ==
    {[p \in AssetFiles |->
        IF \E i \in AssetIds : p = Filename(i, Extension(catalogue[i]))
        THEN LET i == CHOOSE j \in AssetIds :
                        p = Filename(j, Extension(catalogue[j]))
             IN  e[i]
        ELSE Absent] :
     e \in entries}

InitialDirs(catalogue) ==
    DirsOf(catalogue, [AssetIds -> {Absent, Blocked, OldFile}])

\* The same, every id finding the same kind of entry.
UniformDirs(catalogue) ==
    DirsOf(catalogue, {[i \in AssetIds |-> e] : e \in {Absent, Blocked, OldFile}})

\* ------------------------------------------------------ metadata service

\* The "data" array of the response to one chunk: one object for each id of
\* the chunk the service does not leave out.
ServerData(id_chunk) ==
    LET known == SelectSeq(id_chunk, LAMBDA i : i \notin omitted)
    IN  [k \in 1..Len(known) |->
            [id |-> known[k], name |-> AssetName(known[k]),
             typeId |-> serverType[known[k]]]]

\* for asset_data in data: results[asset_data["id"]] = asset_data
RECURSIVE MergeData(_, _)
MergeData(res, data) ==
    IF data = <<>> THEN res
    ELSE LET asset_data == Head(data)
         IN  MergeData(
                [i \in DOMAIN res \cup {asset_data.id} |->
                    IF i = asset_data.id THEN asset_data ELSE res[i]],
                Tail(data))

\* ----------------------------------------------------------------- main

\* The record main appends for one id, "success" not yet in it.
NewRecord(asset_info, asset_filename) ==
    [name |-> asset_info.name, id |-> asset_info.id,
     filename |-> asset_filename, type_id |-> asset_info.typeId]

\* The position at which asset_infos[asset_id] raises KeyError: the first
\* id the dict does not hold; past the end of the list if it holds them all.
KeyErrorAt(ids, infos) ==
    LET missing == {i \in 1..Len(ids) : ids[i] \notin DOMAIN infos}
    IN  IF missing = {} THEN Len(ids) + 1
        ELSE CHOOSE i \in missing : \A j \in missing : i <= j

\* The loop passing over the ids the dict does not hold.
LaunchLoopSkipping(ids, infos) ==
    LET held == SelectSeq(ids, LAMBDA i : i \in DOMAIN infos)
        asset_filename(i) ==
            Filename(held[i], Extension(infos[held[i]].typeId))
    IN  [raised |-> FALSE,
         recs |-> [i \in 1..Len(held) |->
                    NewRecord(infos[held[i]], asset_filename(i))],
         coros |-> [i \in 1..Len(held) |->
                    [asset_id |-> held[i], asset_path |-> asset_filename(i)]]]

\* The for loop over asset_ids that builds result_metadata and coroutines,
\* one record and one coroutine for each id before the loop ends.
LaunchLoop(ids, infos) ==
    LET stop == KeyErrorAt(ids, infos)
        asset_filename(i) ==
            Filename(ids[i], Extension(infos[ids[i]].typeId))
    IN  [raised |-> stop <= Len(ids),
         recs |-> [i \in 1..(stop - 1) |->
                    NewRecord(infos[ids[i]], asset_filename(i))],
         coros |-> [i \in 1..(stop - 1) |->
                    [asset_id |-> ids[i], asset_path |-> asset_filename(i)]]]

\* aiofiles.open(asset_path, "wb"): the file exists and is empty.
OpenWb(entry) == [kind |-> "file", data |-> <<>>]

\* file.write(content) without await: the coroutine object is made and
\* dropped, its body never runs, the file is as it was.
WriteNotAwaited(entry, bytes) == entry

\* The body of download_asset_to_path from the open on.
OpenAndWrite(entry, bytes) == WriteNotAwaited(OpenWb(entry), bytes)

\* Every record flagged a success.
SetSuccessTrue(record, ok) == ("success" :> TRUE) @@ record

\* result_metadata[i]["success"] = result[0]
SetSuccess(record, ok) == ("success" :> ok) @@ record

\* success_count += 1 for each result whose result[0] is true
SuccessCount(res) == Cardinality({i \in 1..Len(res) : res[i][1]})

\* Only the failed content requests counted as failures.
FailCountOfFetches(res) ==
    Cardinality({i \in 1..Len(res) : res[i][2] = "ClientResponseError"})

\* fail_count += 1 for each other result
FailCount(res) == Cardinality({i \in 1..Len(res) : ~res[i][1]})

\* The loop over enumerate(results): the counts, and the flag of the i-th
\* result in the i-th record.
SummaryLoop(res, recs) ==
    [recs |-> [i \in 1..Len(recs) |->
                IF i <= Len(res) THEN SetSuccess(recs[i], res[i][1])
                ELSE recs[i]],
     success_count |-> SuccessCount(res),
     fail_count |-> FailCount(res)]

\* The records added to those assets.json held.
WrittenManifestAppended(old, recs) ==
    [exists |-> TRUE, assets |-> old.assets \o recs]

\* A manifest of the downloaded assets only.
WrittenManifestOfSuccesses(old, recs) ==
    [exists |-> TRUE, assets |-> SelectSeq(recs, LAMBDA r : r.success)]

\* json.dumps({"assets": result_metadata}) written over assets.json.
WrittenManifest(old, recs) == [exists |-> TRUE, assets |-> recs]

\* The state of one run before its first step: the arguments and the locals
\* of main and of get_asset_information (lines 24-26).
StartOfRun(ids) ==
    /\ asset_ids' = ids
    /\ pc' = "FetchMetadata"
    /\ id_chunks' = IdChunks(ids)
    /\ chunk_idx' = 1
    /\ meta_inflight' = FALSE
    /\ asset_infos' = <<>>
    /\ result_metadata' = <<>>
    /\ coroutines' = <<>>
    /\ idx' = 1
    /\ dl' = "pending"
    /\ content' = <<>>
    /\ results' = <<>>
    /\ success_count' = 0
    /\ fail_count' = 0
    /\ error' = "none"
    /\ meta_log' = <<>>
    /\ content_log' = <<>>
    /\ manifest_writes' = 0
    /\ opened' = {}

\* ------------------------------------------------- get_asset_information

\* Requests sent without waiting for the response to the one before.
NotAwaited == TRUE

\* await session.get(...): the loop body does not go on, nor the loop to
\* its next chunk, while the response to a request is awaited.
PreviousAwaited == ~meta_inflight

\* session.get of the chunk of the for loop.
RequestChunk ==
    /\ pc = "FetchMetadata"
    /\ PreviousAwaited
    /\ chunk_idx <= Len(id_chunks)
    /\ meta_inflight' = TRUE
    /\ meta_log' = Append(meta_log, id_chunks[chunk_idx])
    /\ UNCHANGED <<envVars, histVars, files, manifest, asset_ids, pc,
                   id_chunks, chunk_idx, asset_infos, result_metadata,
                   coroutines, idx, dl, content, results, success_count,
                   fail_count, error, content_log, manifest_writes, opened>>

\* A success response: its data is merged and the loop goes on.
ChunkResponse ==
    /\ pc = "FetchMetadata"
    /\ meta_inflight
    /\ meta_inflight' = FALSE
    /\ asset_infos' = MergeData(asset_infos, ServerData(id_chunks[chunk_idx]))
    /\ chunk_idx' = chunk_idx + 1
    /\ UNCHANGED <<envVars, histVars, files, manifest, asset_ids, pc,
                   id_chunks, result_metadata, coroutines, idx, dl, content,
                   results, success_count, fail_count, error, meta_log,
                   content_log, manifest_writes, opened>>

\* The failed chunk is skipped and the run goes on with what it has.
MetadataSwallow == /\ pc' = "LaunchDownloads"
                   /\ error' = "metadata"

\* The way an exception of get_asset_information leaves main.
MetadataRaise == /\ pc' = "Error"
                 /\ error' = "metadata"

\* A non-success response (or a failed request): raise_for_status raises,
\* nothing in main catches it.
ChunkFailure ==
    /\ pc = "FetchMetadata"
    /\ meta_inflight
    /\ meta_inflight' = FALSE
    /\ MetadataRaise
    /\ UNCHANGED <<envVars, histVars, files, manifest, asset_ids, id_chunks,
                   chunk_idx, asset_infos, result_metadata, coroutines, idx,
                   dl, content, results, success_count, fail_count, meta_log,
                   content_log, manifest_writes, opened>>

\* A return inside the for loop: after the first chunk.
ReturnInsideLoop == chunk_idx > 1

\* The for loop over id_chunks has passed the last chunk.
ChunksExhausted == chunk_idx > Len(id_chunks)

\* The for loop is over: return results.
MetadataDone ==
    /\ pc = "FetchMetadata"
    /\ ~meta_inflight
    /\ ChunksExhausted
    /\ pc' = "LaunchDownloads"
    /\ UNCHANGED <<envVars, histVars, metaVars, files, manifest, asset_ids,
                   result_metadata, coroutines, idx, dl, content, results,
                   success_count, fail_count, error, content_log,
                   manifest_writes, opened>>

\* ------------------------------------------------------------------ main

\* Lines 78-97: the records and the coroutines, none of them started. A
\* KeyError leaves main; the coroutines made so far are dropped unstarted.
LaunchDownloads ==
    /\ pc = "LaunchDownloads"
    /\ LET loop == LaunchLoop(asset_ids, asset_infos)
       IN  /\ result_metadata' = loop.recs
           /\ coroutines' = loop.coros
           /\ pc' = IF loop.raised THEN "Error" ELSE "AwaitAll"
           /\ error' = IF loop.raised THEN "lookup" ELSE error
    /\ UNCHANGED <<envVars, histVars, metaVars, files, manifest, asset_ids,
                   idx, dl, content, results, success_count, fail_count,
                   content_log, manifest_writes, opened>>

\* The coroutine main awaits (line 107).
Awaited == coroutines[idx]

\* Every awaited coroutine counted as a success.
SettleAsSuccess(ok, value) ==
    /\ results' = Append(results, <<TRUE, value>>)
    /\ idx' = idx + 1
    /\ dl' = "pending"
    /\ content' = <<>>

\* What the try/except of lines 106-109 appends, and the loop goes on.
Settle(ok, value) ==
    /\ results' = Append(results, <<ok, value>>)
    /\ idx' = idx + 1
    /\ dl' = "pending"
    /\ content' = <<>>

\* The exception of a download leaves main.
ExceptNothing(exception) ==
    /\ pc' = "Error"
    /\ error' = exception
    /\ UNCHANGED <<results, idx, dl, content>>

\* except Exception (line 108): the exception is kept as a failed result and
\* the run goes on.
Except(exception) ==
    /\ Settle(FALSE, exception)
    /\ UNCHANGED <<pc, error>>

\* The destination opened first, the content fetched with the file open.
OpenBeforeFetch ==
    LET asset_path == Awaited.asset_path
    IN  IF files[asset_path].kind = "dir"
        THEN UNCHANGED <<files, opened>>
        ELSE /\ files' = [files EXCEPT ![asset_path] = OpenWb(@)]
             /\ opened' = opened \cup {asset_path}

\* download_asset_to_path awaits get_asset_contents (line 56) before it
\* opens asset_path (line 58): the request goes out with no file touched.
FetchBeforeOpen == UNCHANGED <<files, opened>>

\* await coroutine starts it: get_asset_contents issues the content request.
StartDownload ==
    /\ pc = "AwaitAll"
    /\ idx <= Len(coroutines)
    /\ dl = "pending"
    /\ dl' = "fetching"
    /\ content_log' = Append(content_log, Awaited.asset_id)
    /\ FetchBeforeOpen
    /\ UNCHANGED <<envVars, histVars, metaVars, manifest, asset_ids,
                   pc, result_metadata, coroutines, idx, content, results,
                   success_count, fail_count, error, manifest_writes>>

\* The content request fails: the exception is caught by main.
ContentFailure ==
    /\ pc = "AwaitAll"
    /\ dl = "fetching"
    /\ unreliable \/ Awaited.asset_id \in down
    /\ Except("ClientResponseError")
    /\ UNCHANGED <<envVars, histVars, metaVars, files, manifest, asset_ids,
                   result_metadata, coroutines, success_count, fail_count,
                   content_log, manifest_writes, opened>>

\* The content request succeeds and the body is read.
ContentResponse ==
    /\ pc = "AwaitAll"
    /\ dl = "fetching"
    /\ Awaited.asset_id \notin down
    /\ content' = RemoteContent(Awaited.asset_id)
    /\ dl' = "opening"
    /\ UNCHANGED <<envVars, histVars, metaVars, files, manifest, asset_ids,
                   pc, result_metadata, coroutines, idx, results,
                   success_count, fail_count, error, content_log,
                   manifest_writes, opened>>

\* aiofiles.open raises: the exception is caught by main.
OpenFailure ==
    /\ pc = "AwaitAll"
    /\ dl = "opening"
    /\ files[Awaited.asset_path].kind = "dir"
    /\ Except("OSError")
    /\ UNCHANGED <<envVars, histVars, metaVars, files, manifest, asset_ids,
                   result_metadata, coroutines, success_count, fail_count,
                   content_log, manifest_writes, opened>>

\* The file is opened, line 59 runs, the file is closed: the coroutine
\* returns None.
OpenWriteClose ==
    /\ pc = "AwaitAll"
    /\ dl = "opening"
    /\ files[Awaited.asset_path].kind # "dir"
    /\ files' = [files EXCEPT ![Awaited.asset_path] = OpenAndWrite(@, content)]
    /\ opened' = opened \cup {Awaited.asset_path}
    /\ Settle(TRUE, "None")
    /\ UNCHANGED <<envVars, histVars, metaVars, manifest, asset_ids, pc,
                   result_metadata, coroutines, success_count, fail_count,
                   error, content_log, manifest_writes>>

\* Lines 111-121: every coroutine has settled; the counts and the flags.
Summarize ==
    /\ pc = "AwaitAll"
    /\ idx > Len(coroutines)
    /\ LET loop == SummaryLoop(results, result_metadata)
       IN  /\ result_metadata' = loop.recs
           /\ success_count' = loop.success_count
           /\ fail_count' = loop.fail_count
    /\ pc' = "BuildManifest"
    /\ UNCHANGED <<envVars, histVars, metaVars, files, manifest, asset_ids,
                   coroutines, idx, dl, content, results, error, content_log,
                   manifest_writes, opened>>

\* Lines 123-126: assets.json is written.
WriteManifest ==
    /\ pc = "BuildManifest"
    /\ manifest' = WrittenManifest(manifest, result_metadata)
    /\ manifest_writes' = manifest_writes + 1
    /\ pc' = "Done"
    /\ UNCHANGED <<envVars, histVars, metaVars, files, asset_ids,
                   result_metadata, coroutines, idx, dl, content, results,
                   success_count, fail_count, error, content_log, opened>>

\* ------------------------------------------------------------ environment

\* What is kept of a run that ended, and of the directory it left.
Snapshot ==
    [pc |-> pc, asset_ids |-> asset_ids, results |-> results,
     files |-> files, manifest |-> manifest]

\* The id lists of Spec: every list of 1..MaxLen ids.
ShortLists == UNION {[1..n -> AssetIds] : n \in 1..MaxLen}

\* The id lists of SpecBatch: around each multiple of chunk_size up to
\* MaxChunks chunks, the ids taken in turn.
BatchLens ==
    {n \in 1..(MaxChunks * chunk_size) :
        (n % chunk_size) \in {0, 1, 20, chunk_size - 1}}

BatchLists ==
    {[i \in 1..n |-> IdSeq[((i - 1) % Len(IdSeq)) + 1]] : n \in BatchLens}

\* The tool is run a second time on the same directory (root, lines
\* 141-150), with the same ids or with others.
RunAgain ==
    /\ pc \in {"Done", "Error"}
    /\ prev.pc = "none"
    /\ prev' = Snapshot
    /\ \E ids \in ShortLists : StartOfRun(ids)
    /\ UNCHANGED <<envVars, files, manifest>>

\* ---------------------------------------------------------- specification

InitEnv ==
    /\ serverType \in Catalogues
    /\ omitted \in SUBSET AssetIds
    /\ manifest = NoManifest

InitRun(ids) ==
    /\ asset_ids = ids
    /\ pc = "FetchMetadata"
    /\ id_chunks = IdChunks(ids)
    /\ chunk_idx = 1
    /\ meta_inflight = FALSE
    /\ asset_infos = <<>>
    /\ result_metadata = <<>>
    /\ coroutines = <<>>
    /\ idx = 1
    /\ dl = "pending"
    /\ content = <<>>
    /\ results = <<>>
    /\ success_count = 0
    /\ fail_count = 0
    /\ error = "none"
    /\ meta_log = <<>>
    /\ content_log = <<>>
    /\ manifest_writes = 0
    /\ opened = {}
    /\ prev = [pc |-> "none", asset_ids |-> <<>>, results |-> <<>>,
               files |-> files, manifest |-> manifest]

\* Any content request may fail, whatever its id.
Init ==
    /\ InitEnv
    /\ files \in InitialDirs(serverType)
    /\ unreliable = TRUE
    /\ down = {}
    /\ \E ids \in ShortLists : InitRun(ids)

\* The content requests of some ids fail, those of the others succeed.
InitBatch ==
    /\ InitEnv
    /\ files \in UniformDirs(serverType)
    /\ unreliable = FALSE
    /\ down \in SUBSET AssetIds
    /\ \E ids \in BatchLists : InitRun(ids)

Run ==
    \/ RequestChunk
    \/ ChunkResponse
    \/ ChunkFailure
    \/ MetadataDone
    \/ LaunchDownloads
    \/ StartDownload
    \/ ContentFailure
    \/ ContentResponse
    \/ OpenFailure
    \/ OpenWriteClose
    \/ Summarize
    \/ WriteManifest

Next == Run \/ RunAgain

\* Runs of short id lists, the remote changing, the tool run again.
Spec == Init /\ [][Next]_vars

NextBatch == Run

\* One run of a long id list: several metadata chunks.
SpecBatch == InitBatch /\ [][NextBatch]_vars

NextLive == Run

\* One run of a short id list to its end: run_until_complete (line 146)
\* drives main, its only task, until it returns or raises, and every request
\* or file operation it awaits completes or fails.
SpecLive == Init /\ [][NextLive]_vars /\ WF_vars(NextLive)

\* ----------------------------------------------------------------- claims

Positions == 1..Len(asset_ids)

\* The content request of position i was answered with an error.
FetchFailed(i) == results[i][2] = "ClientResponseError"

\* The content request of position i returned the bytes of the asset.
FetchSucceeded(i) == results[i][2] # "ClientResponseError"

\* The destination of position i could not be opened.
OpenFailed(i) == results[i][2] = "OSError"

\* C1: when the manifest has been written, its assets array has as many
\* entries as ids were requested, and the id of the i-th entry is the i-th
\* requested id, duplicates included, whichever downloads failed.
C1_ManifestLengthAndOrder ==
    pc = "Done" =>
        /\ manifest.exists
        /\ Len(manifest.assets) = Len(asset_ids)
        /\ \A i \in Positions : manifest.assets[i].id = asset_ids[i]

\* A finished run of a list that holds an id twice, one of the two downloads
\* failed and the other not.
C1_Witness ==
    /\ pc = "Done"
    /\ \E i, j \in Positions :
        /\ i < j
        /\ asset_ids[i] = asset_ids[j]
        /\ results[i][1] # results[j][1]

\* C2, as stated: in a finished run, whenever the content fetch failed for
\* asset X and succeeded for another asset Y, X's record has success false,
\* Y's has success true, a file was created at Y's path and none at X's.
C2_AsStated ==
    pc = "Done" =>
        \A x, y \in Positions :
            (/\ asset_ids[x] # asset_ids[y]
             /\ FetchFailed(x)
             /\ FetchSucceeded(y))
            => /\ manifest.assets[x].success = FALSE
               /\ manifest.assets[y].success = TRUE
               /\ manifest.assets[y].filename \in opened
               /\ files[manifest.assets[y].filename].kind = "file"
               /\ manifest.assets[x].filename \notin opened

\* C2, amended: the same when, besides, Y's destination could be opened;
\* and a file is created at X's path only by a download of the same id, at
\* another position of the list, that succeeded.
C2_PartialFailure ==
    pc = "Done" =>
        \A x, y \in Positions :
            (/\ FetchFailed(x)
             /\ FetchSucceeded(y)
             /\ ~OpenFailed(y))
            => /\ manifest.assets[x].success = FALSE
               /\ manifest.assets[y].success = TRUE
               /\ manifest.assets[y].filename \in opened
               /\ files[manifest.assets[y].filename].kind = "file"
               /\ (manifest.assets[x].filename \in opened
                   => \E z \in Positions :
                        /\ asset_ids[z] = asset_ids[x]
                        /\ results[z][1])

\* A finished run in which the fetch of one asset failed and another asset
\* was fetched and written.
C2_Witness ==
    /\ pc = "Done"
    /\ \E x, y \in Positions :
        /\ asset_ids[x] # asset_ids[y]
        /\ FetchFailed(x)
        /\ results[y][1]
        /\ manifest.assets[x].filename \notin opened

\* C3: once a metadata request has failed, whichever chunk it was for, the
\* run has ended in the error, no content request was issued, no asset file
\* was created or truncated, and assets.json was not written.
C3_MetadataFailureAborts ==
    error = "metadata" =>
        /\ pc = "Error"
        /\ content_log = <<>>
        /\ opened = {}
        /\ files = prev.files
        /\ manifest_writes = 0
        /\ manifest = prev.manifest

\* The second of three metadata requests failed, the first having
\* succeeded, in a directory that holds an older file.
C3_Witness ==
    /\ error = "metadata"
    /\ Len(id_chunks) = 3
    /\ chunk_idx = 2
    /\ \E p \in AssetFiles : files[p] = OldFile

\* C4: a failed content fetch or a failed open of one asset does not end the
\* run: the run ends in an error only before the first download; while
\* downloads or the manifest are pending the run can go on; and at the
\* manifest step every asset's download has been attempted, each failed one
\* has success false in its record, and the finished run has written
\* assets.json with the records.
C4_PerAssetFailureContained ==
    /\ pc = "Error" => (error \in {"metadata", "lookup"} /\ results = <<>>)
    /\ pc \in {"AwaitAll", "BuildManifest"} => ENABLED Run
    /\ pc \in {"BuildManifest", "Done"} =>
        /\ content_log = asset_ids
        /\ Len(results) = Len(asset_ids)
        /\ \A i \in Positions :
            ~results[i][1] => result_metadata[i].success = FALSE
    /\ pc = "Done" =>
        /\ manifest_writes = 1
        /\ manifest = [exists |-> TRUE, assets |-> result_metadata]

\* A finished run in which every download failed, one at the fetch and one
\* at the open.
C4_Witness ==
    /\ pc = "Done"
    /\ manifest.exists
    /\ \A i \in Positions : ~manifest.assets[i].success
    /\ \E i, j \in Positions : FetchFailed(i) /\ OpenFailed(j)

\* C5, as stated: in the written manifest, a record with success true means
\* the file of that record holds exactly the bytes fetched for the asset.
C5_ManifestTruthful ==
    pc = "Done" =>
        \A i \in Positions :
            manifest.assets[i].success =>
                files[manifest.assets[i].filename] =
                    [kind |-> "file", data |-> RemoteContent(asset_ids[i])]

\* The metadata phase of the run is over and no request of it failed.
MetadataComplete == pc # "FetchMetadata" /\ error # "metadata"

RECURSIVE Concat(_)
Concat(seqs) == IF seqs = <<>> THEN <<>> ELSE Head(seqs) \o Concat(Tail(seqs))

\* C6: when the metadata phase is over, the requests issued were
\* ceil(n / 50) for n ids, each but the last for 50 ids and the last for
\* the remainder, and their id lists, put end to end in request order, are
\* the input list.
C6_Chunking ==
    MetadataComplete =>
        LET n == Len(asset_ids)
            m == Len(meta_log)
        IN  /\ m = (n + chunk_size - 1) \div chunk_size
            /\ \A k \in 1..(m - 1) : Len(meta_log[k]) = chunk_size
            /\ Len(meta_log[m]) = n - chunk_size * (m - 1)
            /\ Concat(meta_log) = asset_ids

\* The metadata of 120 ids was fetched in chunks of 50, 50 and 20 ids.
C6_Witness ==
    /\ MetadataComplete
    /\ Len(asset_ids) = 120
    /\ Len(meta_log) = 3
    /\ <<Len(meta_log[1]), Len(meta_log[2]), Len(meta_log[3])>> = <<50, 50, 20>>

\* C7: once the summary is computed, success_count and fail_count add up to
\* the number of requested ids, success_count is the number of records with
\* success true and fail_count the number with success false.
C7_SummaryCounts ==
    pc \in {"BuildManifest", "Done"} =>
        LET recs == 1..Len(result_metadata) IN
        /\ success_count + fail_count = Len(asset_ids)
        /\ success_count =
            Cardinality({i \in recs : result_metadata[i].success = TRUE})
        /\ fail_count =
            Cardinality({i \in recs : result_metadata[i].success = FALSE})

\* A summary of one success and at least one failure, a failed open among them.
C7_Witness ==
    /\ pc = "BuildManifest"
    /\ success_count = 1
    /\ fail_count >= 1
    /\ \E i \in Positions : OpenFailed(i)

\* C8: when the metadata phase is over and the service left out a requested
\* id, the run is about to end or has ended in the lookup error: no content
\* request was issued, no asset file created or truncated, and no manifest
\* written.
C8_MissingMetadataFatal ==
    (MetadataComplete /\ \E i \in Positions : asset_ids[i] \in omitted) =>
        /\ pc \in {"LaunchDownloads", "Error"}
        /\ pc = "Error" => error = "lookup"
        /\ content_log = <<>>
        /\ opened = {}
        /\ files = prev.files
        /\ manifest_writes = 0
        /\ manifest = prev.manifest

\* The run ended at the second id of the list, the first having its
\* metadata and its record.
C8_Witness ==
    /\ pc = "Error"
    /\ error = "lookup"
    /\ Len(asset_ids) = 2
    /\ asset_ids[1] \notin omitted
    /\ asset_ids[2] \in omitted
    /\ Len(result_metadata) = 1

\* The decimal numerals of the ids, and the extension of each type code as
\* the claim lists them.
ClaimedNumeral == (9 :> "9") @@ (10 :> "10")

ClaimedExtension(type_id) ==
    CASE type_id = 1 -> "png"
      [] type_id = 3 -> "mp3"
      [] type_id = 5 -> "lua"
      [] type_id = 7 -> "txt"
      [] type_id = 9 -> "rbxl"
      [] type_id = 10 -> "rbxm"
      [] OTHER -> "bin"

\* C9: the filename of every record is "{id}.{ext}", ext being the table's
\* extension for the record's type_id and "bin" for any other code, and the
\* files the run opened are those of its records, one for each download
\* that succeeded.
C9_Filenames ==
    /\ \A i \in 1..Len(result_metadata) :
        LET r == result_metadata[i]
        IN  /\ r.filename =
                ClaimedNumeral[r.id] \o "." \o ClaimedExtension(r.type_id)
            /\ r.type_id = serverType[r.id]
            /\ (i <= Len(results) /\ results[i][1]) => r.filename \in opened
    /\ \A p \in opened :
        \E i \in 1..Len(results) :
            results[i][1] /\ result_metadata[i].filename = p

\* A finished run that wrote 9.bin for a type code the table does not hold
\* and 10.png for type code 1.
C9_Witness ==
    /\ pc = "Done"
    /\ serverType[9] = 999
    /\ serverType[10] = 1
    /\ opened = {"9.bin", "10.png"}

\* The ids of a sequence.
Range(seq) == {seq[i] : i \in 1..Len(seq)}

\* C10: a second finished run with the ids and the responses of the first
\* leaves the asset files and the manifest the first left; and the manifest
\* a second run writes holds one entry for each id of that run and none for
\* another id.
C10_Idempotent ==
    (pc = "Done" /\ prev.pc # "none") =>
        /\ (/\ prev.pc = "Done"
            /\ asset_ids = prev.asset_ids
            /\ results = prev.results)
           => (files = prev.files /\ manifest = prev.manifest)
        /\ Len(manifest.assets) = Len(asset_ids)
        /\ {manifest.assets[i].id : i \in 1..Len(manifest.assets)}
            = Range(asset_ids)

\* A second finished run with the ids and the responses of the first, one
\* download failed and one succeeded in each.
C10_Witness ==
    /\ pc = "Done"
    /\ prev.pc = "Done"
    /\ asset_ids = prev.asset_ids
    /\ results = prev.results
    /\ \E i, j \in Positions : results[i][1] /\ ~results[j][1]

\* A second finished run for an id the first run did not ask for, after a
\* first run that wrote a manifest.
C10_WitnessOtherIds ==
    /\ pc = "Done"
    /\ prev.pc = "Done"
    /\ prev.manifest.exists
    /\ Range(asset_ids) \cap Range(prev.asset_ids) = {}

\* The downloads whose content request is out or whose file is being
\* opened: started and not yet settled.
InFlight == Len(content_log) - Len(results)

\* C11, as stated: every download is started at the launch, so once a first
\* download has settled the content request of every asset of the list has
\* been issued (the others are in flight or have settled too).
C11_AllStartedAtLaunch ==
    (pc = "AwaitAll" /\ results # <<>>) =>
        Len(content_log) = Len(asset_ids)

\* C12: a content request has been issued or an asset file opened only
\* when the response to every metadata chunk, the last included, has been
\* received and merged; and assets.json has been written only when every
\* download has settled, as a success or as a failure.
C12_PhaseOrdering ==
    /\ (content_log # <<>> \/ opened # {} \/ dl # "pending") =>
        /\ Len(meta_log) = Len(id_chunks)
        /\ chunk_idx = Len(id_chunks) + 1
        /\ ~meta_inflight
        /\ error # "metadata"
    /\ (manifest_writes > 0) =>
        /\ Len(results) = Len(asset_ids)
        /\ content_log = asset_ids
        /\ InFlight = 0
        /\ dl = "pending"

\* The first content request of a run of three metadata chunks is out.
C12_Witness ==
    /\ Len(id_chunks) = 3
    /\ content_log # <<>>
    /\ dl = "fetching"
    /\ results = <<>>

\* C13: the metadata requests issued are those of the chunks in order, one
\* more than the responses merged while a request is outstanding or has
\* failed and as many otherwise, so at most one is outstanding and the
\* request of a chunk follows the merge of the chunk before; and the failed
\* request is the last one issued.
C13_MetadataSequential ==
    /\ Len(meta_log) =
        (chunk_idx - 1) + (IF meta_inflight \/ error = "metadata" THEN 1 ELSE 0)
    /\ Len(meta_log) <= Len(id_chunks)
    /\ \A k \in 1..Len(meta_log) : meta_log[k] = id_chunks[k]
    /\ \A k \in 1..(chunk_idx - 1) :
        \A j \in 1..Len(id_chunks[k]) :
            id_chunks[k][j] \in omitted \/ id_chunks[k][j] \in DOMAIN asset_infos
    /\ error = "metadata" => (~meta_inflight /\ Len(meta_log) = chunk_idx)

\* The third request is outstanding, the first two responses merged.
C13_Witness ==
    /\ pc = "FetchMetadata"
    /\ meta_inflight
    /\ chunk_idx = 3
    /\ Len(meta_log) = 3
    /\ asset_infos # <<>>

\* The record has its "success" key.
Determined(record) == "success" \in DOMAIN record

\* The records before, during and after the downloads.
C14_Records ==
    /\ Len(content_log) <= Len(result_metadata)
    /\ pc \in {"FetchMetadata", "LaunchDownloads", "AwaitAll", "Error"} =>
        \A i \in 1..Len(result_metadata) : ~Determined(result_metadata[i])
    /\ pc \in {"BuildManifest", "Done"} =>
        /\ Len(results) = Len(result_metadata)
        /\ \A i \in 1..Len(result_metadata) :
            /\ Determined(result_metadata[i])
            /\ result_metadata[i].success = (results[i][2] = "None")
    /\ manifest.exists =>
        \A i \in 1..Len(manifest.assets) : Determined(manifest.assets[i])

\* The steps that change the records of a run: flags are assigned by the
\* step that follows the last download, to records that had none, and the
\* flagged records do not change.
C14_RecordSteps ==
    LET flagged(recs) == \E i \in 1..Len(recs) : Determined(recs[i])
    IN  \/ result_metadata' = result_metadata
        \/ pc' = "FetchMetadata"
        \/ /\ ~flagged(result_metadata)
           /\ flagged(result_metadata') =>
                (pc = "AwaitAll" /\ pc' = "BuildManifest"
                 /\ Len(results) = Len(asset_ids) /\ InFlight = 0)

\* C14: a record exists before its download starts and has no success flag
\* until every download has settled; the flag is then assigned once, true
\* exactly for the downloads that did not raise, the record is not changed
\* afterwards, and every record of a written manifest has its flag.
C14_SuccessSetOnce == []C14_Records /\ [][C14_RecordSteps]_vars

\* The flags are assigned, one true and one false, the manifest not yet
\* written.
C14_Witness ==
    /\ pc = "BuildManifest"
    /\ manifest_writes = 0
    /\ \E i, j \in 1..Len(result_metadata) :
        /\ result_metadata[i].success = TRUE
        /\ result_metadata[j].success = FALSE

PipelineEdges ==
    {<<"FetchMetadata", "LaunchDownloads">>, <<"LaunchDownloads", "AwaitAll">>,
     <<"AwaitAll", "BuildManifest">>, <<"BuildManifest", "Done">>,
     <<"FetchMetadata", "Error">>, <<"LaunchDownloads", "Error">>}

C16_FailedFetchLeavesFile ==
    /\ \A p \in opened :
        \E i \in 1..Len(results) :
            /\ results[i][1]
            /\ FetchSucceeded(i)
            /\ coroutines[i].asset_path = p
    /\ \A p \in AssetFiles \ opened : files[p] = prev.files[p]
    /\ pc = "Done" =>
        \A x \in Positions :
            FetchFailed(x) =>
                /\ manifest.assets[x].success = FALSE
                /\ (\A z \in Positions :
                        asset_ids[z] = asset_ids[x] => ~results[z][1])
                   => files[manifest.assets[x].filename]
                        = prev.files[manifest.assets[x].filename]

\* A second run whose content fetch failed for an asset the first run had
\* written: the file of the first run is still there.
C16_Witness ==
    /\ pc = "Done"
    /\ prev.pc = "Done"
    /\ \E x \in Positions :
        /\ FetchFailed(x)
        /\ manifest.assets[x].success = FALSE
        /\ manifest.assets[x].filename \notin opened
        /\ \E w \in 1..Len(prev.asset_ids) :
            prev.asset_ids[w] = asset_ids[x] /\ prev.results[w][1]
        /\ files[manifest.assets[x].filename].kind = "file"

====
